---- MODULE Spec2Model ----
(***************************************************************************)
(* The run-experiment request handler (app/api/test/run/route.ts) driving  *)
(* RAGTestingFramework.validateConfiguration and runFullExperiment /       *)
(* runSingleTest (lib/core/testing-framework.ts).                          *)
(*                                                                         *)
(* One action per stretch of code between two awaits.  Everything the      *)
(* collaborators hand back (the rows of a fetch, the shuffle, whether the  *)
(* embedding provider throws, the match and the score of a row) is drawn   *)
(* with \E when the code receives it.                                      *)
(*                                                                         *)
(* Numbers: trainingRatio is a percentage (80 is 0.8); a mean of scores or *)
(* similarities is a fraction <<numerator, denominator>> with a positive   *)
(* denominator, compared by cross-multiplication.  A value that may be     *)
(* absent is the empty sequence, or the one-element sequence holding it.   *)
(***************************************************************************)
EXTENDS Integers, Sequences, FiniteSets, TLC

VARIABLES
    config,           \* TestConfiguration of the request (testConfig)
    tableInfo,        \* what db.getTableInfo answers: [exists, rowCount]
    pc,               \* position of the handler
    status,           \* HTTP status of the response, 0 while there is none
    validation,       \* result of validateConfiguration, NoValue before it ran
    combinations,     \* runFullExperiment: combinations
    i,                \* runFullExperiment: loop index (1-based)
    allResults,       \* runFullExperiment: allResults
    summary,          \* runFullExperiment: summary, NoValue before it is computed
    errorLog,         \* combinations reported by console.error in runFullExperiment
    call,             \* state of the latest runSingleTest call
    data,             \* runSingleTest: data (row identities)
    trainingData,     \* runSingleTest: trainingData
    testingData,      \* runSingleTest: testingData
    trainingEmbeddings, \* runSingleTest: the index, NoValue before it is built
    ti,               \* runSingleTest: index of the testing row (1-based)
    results,          \* runSingleTest: results
    totalSimilarity,  \* runSingleTest: totalSimilarity
    rowOutcome,       \* what each testing row of the latest call met, in order
    nFetch,           \* number of db.getTableData calls of the experiment
    nSplit,           \* number of shuffle-and-split executions of the experiment
    nBuild,           \* number of processTrainingData calls of the experiment
    emptyFetch,       \* some db.getTableData call returned no rows
    engine,           \* the metric calculator under study: "sql", "brdr" or "none"
    weights,          \* its this.config.weights, in hundredths
    nUpdates,         \* number of updateWeights calls so far
    lastCall,         \* the latest call of the calculator and what it returned
    toggled,          \* the column of the latest handleColumnToggle of the form
    experimentResults, \* the ExperimentResults handed to exportResults
    jsonString,       \* what exportResults returned, NoValue before the call
    imported,         \* what importResults returned, NoValue before the call
    state,            \* wizard page: state
    dbConfig,         \* wizard page: dbConfig, NoValue for null
    tables,           \* wizard page: tables
    selectedTable,    \* wizard page: selectedTable, NoValue for null
    sampleData,       \* wizard page: sampleData
    testConfig,       \* wizard page: testConfig, NoValue for null
    wizardResults,    \* wizard page: results, NoValue for null
    isLoading,        \* wizard page: isLoading
    error,            \* wizard page: error, NoValue for null
    progress,         \* wizard page: progress, NoValue for null
    inFlight          \* wizard page: the handler waiting for a response, if any

vars == <<config, tableInfo, pc, status, validation, combinations, i, allResults,
          summary, errorLog, call, data, trainingData, testingData,
          trainingEmbeddings, ti, results, totalSimilarity, rowOutcome,
          nFetch, nSplit, nBuild, emptyFetch, engine, weights, nUpdates, lastCall,
          toggled, experimentResults, jsonString, imported, state, dbConfig, tables,
          selectedTable, sampleData, testConfig, wizardResults, isLoading, error,
          progress, inFlight>>

---------------------------------------------------------------------------
(* Bounds and input sets *)

MaxRows == 3          \* a fetch returns 0..MaxRows rows

Scores == {0, 1}          \* the overallScore values a metric calculator answers
Similarities == {1}       \* the similarity values a match carries

NoValue == <<>>
Some(x) == <<x>>
Has(x) == Len(x) > 0

TableColumns == {"c1", "c2", "c3", "c4", "c5", "c6", "y", "q", "ans"}
CandidateFields == <<"c1", "c2">>
RatioPercents == {0, 50, 80, 100}

Range(s) == {s[k] : k \in 1..Len(s)}

\* the first k candidate fields selected, for every k
SelectedColumnLists == {SubSeq(CandidateFields, 1, k) : k \in 0..Len(CandidateFields)}

Configs ==
    [selectedColumns : SelectedColumnLists,
     yColumn : {"y", "c1"},
     queryColumn : {"q", "zz"},
     answerColumn : {"ans"},
     trainingRatio : RatioPercents]

TableInfos == [exists : BOOLEAN, rowCount : {3}]

Shuffles(S) ==
    {p \in [1..Cardinality(S) -> S] : \A a \in S : \E k \in 1..Cardinality(S) : p[k] = a}

---------------------------------------------------------------------------
(* Fractions *)

FracLT(a, b) == a[1] * b[2] < b[1] * a[2]
FracEQ(a, b) == a[1] * b[2] = b[1] * a[2]
FracLE(a, b) == a[1] * b[2] <= b[1] * a[2]
FracAdd(a, b) == <<a[1] * b[2] + b[1] * a[2], a[2] * b[2]>>

---------------------------------------------------------------------------
(* EmbeddingGenerator.generateColumnCombinations: every non-empty subset of *)
(* the columns, members in list order, enumerated by bit mask.              *)

RECURSIVE Pow2(_)
Pow2(n) == IF n = 0 THEN 1 ELSE 2 * Pow2(n - 1)

RECURSIVE ColumnsOfMask(_, _, _)
ColumnsOfMask(cols, mask, j) ==
    IF j > Len(cols) THEN <<>>
    ELSE (IF (mask \div Pow2(j - 1)) % 2 = 1 THEN <<cols[j]>> ELSE <<>>)
         \o ColumnsOfMask(cols, mask, j + 1)

generateColumnCombinations(cols) ==
    [m \in 1..(Pow2(Len(cols)) - 1) |-> ColumnsOfMask(cols, m, 1)]

---------------------------------------------------------------------------
(* validateConfiguration *)

RECURSIVE MissingSelected(_, _)
MissingSelected(cols, k) ==
    IF k > Len(cols) THEN <<>>
    ELSE (IF cols[k] \notin TableColumns THEN <<"ColumnNotFound">> ELSE <<>>)
         \o MissingSelected(cols, k + 1)

\* Math.ceil(rowCount * (1 - trainingRatio))
MinTestSize(rowCount, pct) == (rowCount * (100 - pct) + 99) \div 100

\* a ratio check that lets 0 and 1 through
ValidationErrorsRatioInclusive(cfg, info) ==
    IF ~info.exists THEN <<"TableNotFound">>
    ELSE MissingSelected(cfg.selectedColumns, 1)
         \o (IF cfg.yColumn \notin TableColumns THEN <<"YColumnNotFound">> ELSE <<>>)
         \o (IF cfg.queryColumn \notin TableColumns THEN <<"QueryColumnNotFound">> ELSE <<>>)
         \o (IF cfg.answerColumn \notin TableColumns THEN <<"AnswerColumnNotFound">> ELSE <<>>)
         \o (IF Len(cfg.selectedColumns) = 0 THEN <<"NoColumnSelected">> ELSE <<>>)
         \o (IF cfg.trainingRatio < 0 \/ cfg.trainingRatio > 100
             THEN <<"BadTrainingRatio">> ELSE <<>>)

ValidationErrors(cfg, info) ==
    IF ~info.exists THEN <<"TableNotFound">>
    ELSE MissingSelected(cfg.selectedColumns, 1)
         \o (IF cfg.yColumn \notin TableColumns THEN <<"YColumnNotFound">> ELSE <<>>)
         \o (IF cfg.queryColumn \notin TableColumns THEN <<"QueryColumnNotFound">> ELSE <<>>)
         \o (IF cfg.answerColumn \notin TableColumns THEN <<"AnswerColumnNotFound">> ELSE <<>>)
         \o (IF Len(cfg.selectedColumns) = 0 THEN <<"NoColumnSelected">> ELSE <<>>)
         \o (IF cfg.trainingRatio <= 0 \/ cfg.trainingRatio >= 100
             THEN <<"BadTrainingRatio">> ELSE <<>>)

ValidationWarnings(cfg, info) ==
    IF ~info.exists THEN {}
    ELSE (IF Len(cfg.selectedColumns) > 5 THEN {"ManyColumns"} ELSE {})
         \cup (IF info.rowCount < 10 THEN {"FewRows"} ELSE {})
         \cup (IF MinTestSize(info.rowCount, cfg.trainingRatio) < 5
               THEN {"SmallTestSet"} ELSE {})

validateConfiguration(cfg, info) ==
    [isValid |-> Len(ValidationErrors(cfg, info)) = 0,
     errors |-> ValidationErrors(cfg, info),
     warnings |-> ValidationWarnings(cfg, info)]

---------------------------------------------------------------------------
(* runSingleTest: pure parts *)

\* Math.round in place of Math.floor
SplitIndexRounded(n, pct) == (n * pct + 50) \div 100

\* Math.floor(shuffled.length * config.trainingRatio)
SplitIndex(n, pct) == (n * pct) \div 100

TrainingSlice(shuffled, splitIndex) == SubSeq(shuffled, 1, splitIndex)

TestingSlice(shuffled, splitIndex) == SubSeq(shuffled, splitIndex + 1, Len(shuffled))

RECURSIVE SumScores(_, _)
SumScores(rs, k) == IF k > Len(rs) THEN 0 ELSE rs[k].score + SumScores(rs, k + 1)

AverageScore(rs) == IF Len(rs) > 0 THEN <<SumScores(rs, 1), Len(rs)>> ELSE <<0, 1>>

\* the division without the results.length > 0 test
AverageSimilarityUnguarded(total, n) == <<total, IF n > 0 THEN n ELSE 1>>

AverageSimilarity(total, n) == IF n > 0 THEN <<total, n>> ELSE <<0, 1>>

\* !query || !expectedAnswer
MissingQueryOrAnswer(hasQuery, hasAnswer) == ~hasQuery \/ ~hasAnswer

\* testingData.length in place of results.length
TotalTestsAllRows(rs, testRows) == Len(testRows)

TotalTests(rs, testRows) == Len(rs)

TestResultOf(combination, rs, total, testRows) ==
    [combination |-> combination,
     averageScore |-> AverageScore(rs),
     totalTests |-> TotalTests(rs, testRows),
     averageSimilarity |-> AverageSimilarity(total, Len(rs))]

---------------------------------------------------------------------------
(* runFullExperiment: pure parts *)

\* >= and <= in place of > and <
PickBestLastWins(best, current) ==
    IF FracLE(best.averageScore, current.averageScore) THEN current ELSE best

PickWorstLastWins(worst, current) ==
    IF FracLE(current.averageScore, worst.averageScore) THEN current ELSE worst

\* the callbacks of the two reduce calls
PickBest(best, current) ==
    IF FracLT(best.averageScore, current.averageScore) THEN current ELSE best

PickWorst(worst, current) ==
    IF FracLT(current.averageScore, worst.averageScore) THEN current ELSE worst

\* Array.prototype.reduce without an initial value, on a non-empty array
RECURSIVE ReduceBest(_, _, _)
ReduceBest(rs, k, acc) ==
    IF k > Len(rs) THEN acc ELSE ReduceBest(rs, k + 1, PickBest(acc, rs[k]))

RECURSIVE ReduceWorst(_, _, _)
ReduceWorst(rs, k, acc) ==
    IF k > Len(rs) THEN acc ELSE ReduceWorst(rs, k + 1, PickWorst(acc, rs[k]))

RECURSIVE SumAverages(_, _)
SumAverages(rs, k) ==
    IF k > Len(rs) THEN <<0, 1>> ELSE FracAdd(rs[k].averageScore, SumAverages(rs, k + 1))

\* a summary that counts every generated combination
SummaryOfAllCombinations(rs) ==
    LET best == ReduceBest(rs, 2, rs[1])
        worst == ReduceWorst(rs, 2, rs[1])
        total == SumAverages(rs, 1)
    IN [bestCombination |-> best.combination,
        bestScore |-> best.averageScore,
        worstCombination |-> worst.combination,
        worstScore |-> worst.averageScore,
        averageScore |-> <<total[1], total[2] * Len(rs)>>,
        totalCombinations |-> Len(combinations)]

SummaryOf(rs) ==
    LET best == ReduceBest(rs, 2, rs[1])
        worst == ReduceWorst(rs, 2, rs[1])
        total == SumAverages(rs, 1)
    IN [bestCombination |-> best.combination,
        bestScore |-> best.averageScore,
        worstCombination |-> worst.combination,
        worstScore |-> worst.averageScore,
        averageScore |-> <<total[1], total[2] * Len(rs)>>,
        totalCombinations |-> Len(rs)]

---------------------------------------------------------------------------
(* The handler *)

metricVars == <<engine, weights, nUpdates, lastCall>>
formVars == <<toggled>>
exportVars == <<experimentResults, jsonString, imported>>
pageVars == <<state, dbConfig, tables, selectedTable, sampleData, testConfig,
              wizardResults, isLoading, error, progress, inFlight>>
otherVars == <<metricVars, formVars, exportVars, pageVars>>

\* no metric calculator, form or export is part of a request to the handler
NoCalculator == engine = "none" /\ weights = <<>> /\ nUpdates = 0 /\ lastCall = NoValue
NoForm == toggled = NoValue
NoExport == experimentResults = NoValue /\ jsonString = NoValue /\ imported = NoValue
\* the wizard page as it is mounted, with no handler called
NoPage ==
    /\ state = "connect"
    /\ dbConfig = NoValue
    /\ tables = <<>>
    /\ selectedTable = NoValue
    /\ sampleData = <<>>
    /\ testConfig = NoValue
    /\ wizardResults = NoValue
    /\ isLoading = FALSE
    /\ error = NoValue
    /\ progress = NoValue
    /\ inFlight = NoValue

Init ==
    /\ config \in Configs
    /\ tableInfo \in TableInfos
    /\ pc = "request"
    /\ status = 0
    /\ validation = NoValue
    /\ combinations = <<>>
    /\ i = 1
    /\ allResults = <<>>
    /\ summary = NoValue
    /\ errorLog = <<>>
    /\ call = "none"
    /\ data = <<>>
    /\ trainingData = <<>>
    /\ testingData = <<>>
    /\ trainingEmbeddings = NoValue
    /\ ti = 1
    /\ results = <<>>
    /\ totalSimilarity = 0
    /\ rowOutcome = <<>>
    /\ nFetch = 0
    /\ nSplit = 0
    /\ nBuild = 0
    /\ emptyFetch = FALSE
    /\ NoCalculator
    /\ NoForm
    /\ NoExport
    /\ NoPage

experimentVars == <<combinations, i, allResults, summary, errorLog>>
callVars == <<call, data, trainingData, testingData, trainingEmbeddings, ti,
              results, totalSimilarity, rowOutcome>>
counters == <<nFetch, nSplit, nBuild, emptyFetch>>

Respond(code) == pc' = "done" /\ status' = code

\* POST up to the first await of validateConfiguration: a missing dbConfig or
\* testConfig and a failed test_connection answer 400, a throwing
\* framework.initialize() is caught and answers 500.
Connect ==
    /\ pc = "request"
    /\ \/ \E code \in {400, 500} : Respond(code)
       \/ pc' = "validating" /\ status' = status
    /\ UNCHANGED <<otherVars, config, tableInfo, validation, experimentVars, callVars, counters>>

\* the handler without the early return
RunsExperimentAlways(v) == TRUE

\* what the handler does with the validation: the early return of route.ts 42-50
RunsExperiment(v) == v.isValid

\* validateConfiguration answers; the handler returns 400 or enters
\* runFullExperiment, which runs to the first getTableData of runSingleTest.
Validate ==
    /\ pc = "validating"
    /\ validation' = Some(validateConfiguration(config, tableInfo))
    /\ IF RunsExperiment(validation'[1])
       THEN /\ combinations' = generateColumnCombinations(config.selectedColumns)
            /\ pc' = IF Len(combinations') = 0 THEN "aggregate" ELSE "fetch"
            /\ status' = status
       ELSE /\ Respond(400)
            /\ combinations' = combinations
    /\ UNCHANGED <<otherVars, config, tableInfo, i, allResults, summary, errorLog, callVars, counters>>

\* a loop that steps over every second combination
NextCombinationSkipping ==
    /\ i' = i + 2
    /\ pc' = IF i + 2 > Len(combinations) THEN "aggregate" ELSE "fetch"

\* a loop that fetches and splits for the first combination only
NextCombinationReusingSplit ==
    /\ i' = i + 1
    /\ pc' = IF i + 1 > Len(combinations) THEN "aggregate" ELSE "build"

\* the for loop of runFullExperiment moving past combination i
NextCombination ==
    /\ i' = i + 1
    /\ pc' = IF i + 1 > Len(combinations) THEN "aggregate" ELSE "fetch"

\* break in place of continue
CatchCombinationBreak ==
    /\ errorLog' = Append(errorLog, combinations[i])
    /\ allResults' = allResults
    /\ i' = i + 1
    /\ pc' = "aggregate"

\* the catch of runFullExperiment: console.error, continue
CatchCombination ==
    /\ errorLog' = Append(errorLog, combinations[i])
    /\ allResults' = allResults
    /\ NextCombination

\* db.getTableData answers runSingleTest: no rows throws; otherwise the rows are
\* shuffled and sliced and processTrainingData is called.
Fetch ==
    /\ pc = "fetch"
    /\ nFetch' = nFetch + 1
    /\ \E n \in 0..MaxRows :
         /\ data' = [k \in 1..n |-> k]
         /\ IF n = 0
            THEN /\ call' = "threwNoData"
                 /\ CatchCombination
                 /\ emptyFetch' = TRUE
                 /\ trainingData' = <<>>
                 /\ testingData' = <<>>
                 /\ UNCHANGED <<nSplit, nBuild>>
            ELSE /\ \E shuffled \in Shuffles(1..n) :
                      LET splitIndex == SplitIndex(n, config.trainingRatio)
                      IN /\ trainingData' = TrainingSlice(shuffled, splitIndex)
                         /\ testingData' = TestingSlice(shuffled, splitIndex)
                 /\ call' = "running"
                 /\ pc' = "build"
                 /\ nSplit' = nSplit + 1
                 /\ nBuild' = nBuild + 1
                 /\ UNCHANGED <<i, allResults, errorLog, emptyFetch>>
    /\ trainingEmbeddings' = NoValue
    /\ ti' = 1
    /\ results' = <<>>
    /\ totalSimilarity' = 0
    /\ rowOutcome' = <<>>
    /\ UNCHANGED <<otherVars, config, tableInfo, status, validation, combinations, summary>>

\* processTrainingData throws: runSingleTest rejects, runFullExperiment catches
BuildIndexThrows ==
    /\ pc = "build"
    /\ call' = "threwBuild"
    /\ CatchCombination
    /\ UNCHANGED <<otherVars, config, tableInfo, status, validation, combinations, summary,
                   data, trainingData, testingData, trainingEmbeddings, ti, results,
                   totalSimilarity, rowOutcome, counters>>

\* an index labelled and built for the first combination, whatever the current one
BuildIndexOfFirstCombination ==
    /\ pc = "build"
    /\ trainingEmbeddings' = Some([combination |-> combinations[1], rows |-> trainingData])
    /\ pc' = "row"
    /\ UNCHANGED <<otherVars, config, tableInfo, status, validation, experimentVars, call, data,
                   trainingData, testingData, ti, results, totalSimilarity, rowOutcome,
                   counters>>

\* processTrainingData answers with the index of this combination
BuildIndex ==
    /\ pc = "build"
    /\ trainingEmbeddings' = Some([combination |-> combinations[i], rows |-> trainingData])
    /\ pc' = "row"
    /\ UNCHANGED <<otherVars, config, tableInfo, status, validation, experimentVars, call, data,
                   trainingData, testingData, ti, results, totalSimilarity, rowOutcome,
                   counters>>

RowStep(outcome) ==
    /\ pc = "row"
    /\ ti <= Len(testingData)
    /\ rowOutcome' = Append(rowOutcome, outcome)
    /\ ti' = ti + 1
    /\ UNCHANGED <<otherVars, config, tableInfo, pc, status, validation, experimentVars, call,
                   data, trainingData, testingData, trainingEmbeddings, counters>>

\* testing-framework.ts 197-200
SkipRow ==
    /\ \E hasQuery, hasAnswer \in BOOLEAN : MissingQueryOrAnswer(hasQuery, hasAnswer)
    /\ RowStep("skipped")
    /\ UNCHANGED <<results, totalSimilarity>>

\* processQuery throws: testing-framework.ts 242-245
QueryThrows ==
    /\ RowStep("queryThrew")
    /\ UNCHANGED <<results, totalSimilarity>>

\* processQuery answers no match: testing-framework.ts 210-213
NoMatch ==
    /\ RowStep("noMatch")
    /\ UNCHANGED <<results, totalSimilarity>>

\* a match, and the metric calculator throws: testing-framework.ts 215-225, 242-245
ScoringThrows ==
    /\ RowStep("scoringThrew")
    /\ \E sim \in Similarities : totalSimilarity' = totalSimilarity + sim
    /\ UNCHANGED results

\* a match, scored and pushed: testing-framework.ts 215-235
Scored ==
    /\ RowStep("scored")
    /\ \E sim \in Similarities, score \in Scores :
         /\ totalSimilarity' = totalSimilarity + sim
         /\ results' = Append(results, [testIndex |-> ti, similarity |-> sim,
                                        score |-> score])

\* after the last testing row: the averages, the return, allResults.push
FinishTest ==
    /\ pc = "row"
    /\ ti > Len(testingData)
    /\ call' = "returned"
    /\ allResults' = Append(allResults,
                            TestResultOf(combinations[i], results, totalSimilarity,
                                         testingData))
    /\ NextCombination
    /\ UNCHANGED <<otherVars, config, tableInfo, status, validation, combinations, summary,
                   errorLog, data, trainingData, testingData, trainingEmbeddings, ti,
                   results, totalSimilarity, rowOutcome, counters>>

\* after the loop: reduce of an empty allResults throws a TypeError, which the
\* handler's catch answers with 500; otherwise the summary and 200.
Aggregate ==
    /\ pc = "aggregate"
    /\ IF Len(allResults) = 0
       THEN Respond(500) /\ summary' = summary
       ELSE Respond(200) /\ summary' = Some(SummaryOf(allResults))
    /\ UNCHANGED <<otherVars, config, tableInfo, validation, combinations, i, allResults,
                   errorLog, callVars, counters>>

Next ==
    \/ Connect
    \/ Validate
    \/ Fetch
    \/ BuildIndexThrows
    \/ BuildIndex
    \/ SkipRow
    \/ QueryThrows
    \/ NoMatch
    \/ ScoringThrows
    \/ Scored
    \/ FinishTest
    \/ Aggregate

Spec == Init /\ [][Next]_vars

---------------------------------------------------------------------------
(* Properties *)

LastResult == allResults[Len(allResults)]

ScoredRows == {k \in 1..Len(rowOutcome) : rowOutcome[k] = "scored"}

\* the loop of runFullExperiment has moved on from the combination just handled
MovedOn ==
    \/ pc = "fetch" /\ i <= Len(combinations)
    \/ pc \in {"aggregate", "done"} /\ i = Len(combinations) + 1

\* C1: in runSingleTest a testing row without query or answer, or whose retrieval
\* or scoring throws, is left out of the results and the next row is processed:
\* whatever rows fail, the call returns a result whose totalTests is the number of
\* testing rows that were neither skipped nor failed.
C1_FailedRowsExcluded ==
    /\ pc = "row" => Len(results) = Cardinality(ScoredRows)
    /\ call = "returned" =>
         /\ Len(rowOutcome) = Len(testingData)
         /\ LastResult.combination = combinations[i - 1]
         /\ LastResult.totalTests = Cardinality(ScoredRows)

C1_Witness ==
    /\ call = "returned"
    /\ Len(rowOutcome) = 2
    /\ rowOutcome[1] \in {"skipped", "queryThrew", "scoringThrew"}
    /\ rowOutcome[2] = "scored"
    /\ LastResult.totalTests = 1

\* C2: a combination whose every testing row is skipped, unmatched or failing
\* still yields a result with totalTests = 0, averageScore = 0 and
\* averageSimilarity = 0, appended to allResults, and the experiment goes on to
\* the next combination (or to the summary).
C2_DegenerateCombination ==
    (call = "returned" /\ ScoredRows = {}) =>
        /\ LastResult.combination = combinations[i - 1]
        /\ LastResult.totalTests = 0
        /\ LastResult.averageScore[1] = 0
        /\ LastResult.averageSimilarity[1] = 0
        /\ MovedOn
        /\ pc = "done" => status = 200

C2_Witness ==
    /\ call = "returned"
    /\ rowOutcome = <<"noMatch", "scoringThrew">>
    /\ LastResult.totalTests = 0
    /\ pc = "fetch"

\* C3 as stated: when building the training index throws, the aborted combination
\* is recorded in allResults and the loop proceeds.
C3_Original ==
    call = "threwBuild" =>
        /\ \E k \in 1..Len(allResults) : allResults[k].combination = combinations[i - 1]
        /\ MovedOn

\* C3 amended: when building the training index throws, only that combination is
\* aborted: it is reported by console.error and left out of allResults, and the
\* loop proceeds to the next combination.
C3_BuildFailureOmitted ==
    call = "threwBuild" =>
        /\ \A k \in 1..Len(allResults) : allResults[k].combination # combinations[i - 1]
        /\ errorLog[Len(errorLog)] = combinations[i - 1]
        /\ Len(allResults) + Len(errorLog) = i - 1
        /\ MovedOn

C3_Witness ==
    /\ call = "threwBuild"
    /\ pc = "fetch"
    /\ Len(allResults) = 1
    /\ i = 3

\* C4: with a valid configuration and no empty fetch, the handler ends with the
\* experiment's results, whatever rows and combinations failed.
C4_Original ==
    (pc = "done" /\ Has(validation) /\ validation[1].isValid /\ ~emptyFetch) =>
        status = 200 /\ Has(summary)

AverageScoreOf(k) == allResults[k].averageScore

\* the first index holding the largest, or the smallest, averageScore
FirstMax ==
    CHOOSE k \in 1..Len(allResults) :
        /\ \A j \in 1..Len(allResults) : FracLE(AverageScoreOf(j), AverageScoreOf(k))
        /\ \A j \in 1..(k - 1) : FracLT(AverageScoreOf(j), AverageScoreOf(k))

FirstMin ==
    CHOOSE k \in 1..Len(allResults) :
        /\ \A j \in 1..Len(allResults) : FracLE(AverageScoreOf(k), AverageScoreOf(j))
        /\ \A j \in 1..(k - 1) : FracLT(AverageScoreOf(k), AverageScoreOf(j))

LastMin ==
    CHOOSE k \in 1..Len(allResults) :
        /\ \A j \in 1..Len(allResults) : FracLE(AverageScoreOf(k), AverageScoreOf(j))
        /\ \A j \in (k + 1)..Len(allResults) : FracLT(AverageScoreOf(k), AverageScoreOf(j))

\* C5: summary.bestCombination and bestScore are those of the result with the
\* largest averageScore, the earliest one when several share it.
C5_BestFirstSeen ==
    Has(summary) =>
        /\ summary[1].bestCombination = allResults[FirstMax].combination
        /\ summary[1].bestScore = AverageScoreOf(FirstMax)

C5_Witness ==
    /\ Has(summary)
    /\ \E j, k \in 1..Len(allResults) :
         /\ j < k
         /\ FracEQ(AverageScoreOf(j), AverageScoreOf(k))
         /\ FracEQ(AverageScoreOf(j), AverageScoreOf(FirstMax))
         /\ summary[1].bestCombination = allResults[j].combination

\* C6 as stated: summary.worstCombination is the result with the smallest
\* averageScore, the latest one when several share it.
C6_Original ==
    Has(summary) =>
        /\ summary[1].worstCombination = allResults[LastMin].combination
        /\ summary[1].worstScore = AverageScoreOf(LastMin)

\* C6 amended: summary.worstCombination and worstScore are those of the result
\* with the smallest averageScore, the earliest one when several share it.
C6_WorstFirstSeen ==
    Has(summary) =>
        /\ summary[1].worstCombination = allResults[FirstMin].combination
        /\ summary[1].worstScore = AverageScoreOf(FirstMin)

C6_Witness ==
    /\ Has(summary)
    /\ \E j, k \in 1..Len(allResults) :
         /\ j < k
         /\ FracEQ(AverageScoreOf(j), AverageScoreOf(k))
         /\ FracEQ(AverageScoreOf(j), AverageScoreOf(FirstMin))
         /\ summary[1].worstCombination = allResults[j].combination

\* the phases of an experiment, in order
PhaseRank(p) ==
    CASE p = "request" -> 0
      [] p = "validating" -> 1
      [] p \in {"fetch", "build", "row"} -> 2
      [] p = "aggregate" -> 3
      [] p = "done" -> 4

IsShuffleOf(training, testing, rows) ==
    /\ Len(training) + Len(testing) = Len(rows)
    /\ Range(training) \cup Range(testing) = Range(rows)

\* C7 as stated: the rows are fetched and split exactly once, before the first
\* index is built, and every combination is built and tested on that partition.
C7_Original ==
    /\ nFetch <= 1
    /\ nSplit <= 1
    /\ pc \in {"build", "row"} => nSplit = 1

\* C7 amended: validation, the combinations, the summary and the response follow
\* each other with no step back, but the rows are fetched and split once per
\* combination, inside that combination's runSingleTest call and before its index
\* is built, and each combination is built and tested on its own partition.
C7_SplitPerCombination ==
    [][/\ PhaseRank(pc') >= PhaseRank(pc)
       /\ pc' \in {"build", "row"} =>
            /\ nFetch' = i'
            /\ nSplit' <= nFetch'
            /\ IsShuffleOf(trainingData', testingData', data')
       /\ pc' = "row" =>
            /\ trainingEmbeddings'[1].combination = combinations'[i']
            /\ trainingEmbeddings'[1].rows = trainingData'
       /\ pc' \in {"aggregate", "done"} => nFetch' = Len(combinations')]_vars

C7_Witness ==
    /\ pc = "done"
    /\ status = 200
    /\ nSplit = 3
    /\ Len(allResults) = 3

\* C8: for N rows and a training ratio strictly between 0 and 1 the split gives
\* floor(N * ratio) training rows and the other N - floor(N * ratio) rows as
\* testing rows; the two are disjoint and hold every row exactly once.
C8_SplitSizes ==
    (pc \in {"build", "row"} /\ config.trainingRatio > 0 /\ config.trainingRatio < 100) =>
        LET n == Len(data)
            k == Len(trainingData)
        IN /\ 100 * k <= n * config.trainingRatio
           /\ n * config.trainingRatio < 100 * (k + 1)
           /\ Len(testingData) = n - k
           /\ Range(trainingData) \cap Range(testingData) = {}
           /\ Range(trainingData) \cup Range(testingData) = Range(data)
           /\ Cardinality(Range(trainingData)) = Len(trainingData)
           /\ Cardinality(Range(testingData)) = Len(testingData)

C8_Witness ==
    /\ pc = "build"
    /\ config.trainingRatio = 80
    /\ Len(data) = 3
    /\ Len(trainingData) = 2
    /\ Len(testingData) = 1

\* C9: in the run handler validateConfiguration runs before runFullExperiment, and
\* an invalid configuration is answered with 400 without runFullExperiment being
\* entered: no combination is generated, no row fetched, no index built.
C9_ValidationGuardsExperiment ==
    /\ (pc \in {"fetch", "build", "row", "aggregate"} \/ nFetch > 0 \/ Has(summary)
        \/ Len(combinations) > 0)
          => (Has(validation) /\ validation[1].isValid)
    /\ (Has(validation) /\ ~validation[1].isValid) =>
          /\ pc = "done"
          /\ status = 400
          /\ combinations = <<>>
          /\ nFetch = 0
          /\ nBuild = 0
          /\ allResults = <<>>

C9_Witness ==
    /\ Has(validation)
    /\ ~validation[1].isValid
    /\ validation[1].errors = <<"QueryColumnNotFound", "BadTrainingRatio">>
    /\ status = 400

\* C10: a configuration whose yColumn is one of its selectedColumns is reported
\* invalid by validateConfiguration, so no experiment runs with it.
C10_Original ==
    config.yColumn \in Range(config.selectedColumns) =>
        /\ Has(validation) => ~validation[1].isValid
        /\ nFetch = 0

---------------------------------------------------------------------------
(* The validate request handler (app/api/test/validate/route.ts): it answers *)
(* with whatever validateConfiguration returns.  The requests carry any      *)
(* configuration a client can post.                                          *)

RequestSelectedColumns ==
    {<<>>, <<"c1">>, <<"c1", "c2">>, <<"zz">>, <<"c1", "zz", "zy">>,
     <<"c1", "c2", "c3", "c4", "c5">>, <<"c1", "c2", "c3", "c4", "c5", "c6">>}

RequestConfigs ==
    [selectedColumns : RequestSelectedColumns,
     yColumn : {"y", "c1", "zz"},
     queryColumn : {"q", "zz"},
     answerColumn : {"ans", "zz"},
     trainingRatio : {-10, 0, 50, 80, 100, 150}]

RequestTableInfos == [exists : BOOLEAN, rowCount : {3, 10, 100}]

InitValidate ==
    /\ config \in RequestConfigs
    /\ tableInfo \in RequestTableInfos
    /\ pc = "validateRequest"
    /\ status = 0
    /\ validation = NoValue
    /\ combinations = <<>>
    /\ i = 1
    /\ allResults = <<>>
    /\ summary = NoValue
    /\ errorLog = <<>>
    /\ call = "none"
    /\ data = <<>>
    /\ trainingData = <<>>
    /\ testingData = <<>>
    /\ trainingEmbeddings = NoValue
    /\ ti = 1
    /\ results = <<>>
    /\ totalSimilarity = 0
    /\ rowOutcome = <<>>
    /\ nFetch = 0
    /\ nSplit = 0
    /\ nBuild = 0
    /\ emptyFetch = FALSE
    /\ NoCalculator
    /\ NoForm
    /\ NoExport
    /\ NoPage

\* POST up to the await of validateConfiguration: a missing dbConfig or
\* testConfig and a failed test_connection answer 400, a throw is caught and
\* answers 500.
ValidateRouteConnect ==
    /\ pc = "validateRequest"
    /\ \/ \E code \in {400, 500} : Respond(code)
       \/ pc' = "validateAwait" /\ status' = status
    /\ UNCHANGED <<otherVars, config, tableInfo, validation, experimentVars, callVars,
                   counters>>

\* validateConfiguration answers; the handler sends it with status 200
ValidateRoute ==
    /\ pc = "validateAwait"
    /\ validation' = Some(validateConfiguration(config, tableInfo))
    /\ Respond(200)
    /\ UNCHANGED <<otherVars, config, tableInfo, experimentVars, callVars, counters>>

NextValidate ==
    \/ ValidateRouteConnect
    \/ ValidateRoute

SpecValidate == InitValidate /\ [][NextValidate]_vars

\* C11: a configuration with more than 5 selected columns is reported invalid
\* by validateConfiguration.
C11_Original ==
    (Has(validation) /\ Len(config.selectedColumns) > 5) => ~validation[1].isValid

\* the rules of validateConfiguration that a configuration violates
ViolatedRules(cfg, info) ==
    (IF ~info.exists THEN {"TableNotFound"} ELSE {})
    \cup (IF \E k \in 1..Len(cfg.selectedColumns) :
                ~info.exists \/ cfg.selectedColumns[k] \notin TableColumns
          THEN {"ColumnNotFound"} ELSE {})
    \cup (IF ~info.exists \/ cfg.yColumn \notin TableColumns
          THEN {"YColumnNotFound"} ELSE {})
    \cup (IF ~info.exists \/ cfg.queryColumn \notin TableColumns
          THEN {"QueryColumnNotFound"} ELSE {})
    \cup (IF ~info.exists \/ cfg.answerColumn \notin TableColumns
          THEN {"AnswerColumnNotFound"} ELSE {})
    \cup (IF Len(cfg.selectedColumns) = 0 THEN {"NoColumnSelected"} ELSE {})
    \cup (IF cfg.trainingRatio <= 0 \/ cfg.trainingRatio >= 100
          THEN {"BadTrainingRatio"} ELSE {})

\* C19 as stated: isValid is true exactly when no rule is violated, and every
\* violated rule has its error in the error list.
C19_Original ==
    Has(validation) =>
        /\ validation[1].isValid = (ViolatedRules(config, tableInfo) = {})
        /\ ViolatedRules(config, tableInfo) \subseteq Range(validation[1].errors)

\* C19: isValid is true exactly when no rule is violated and exactly when the
\* error list is empty.  When the table is missing the only error is the
\* table's; when it exists the errors are those of the violated rules, one per
\* missing selected column and one per other violated rule.  The warnings
\* play no part: a valid configuration may carry warnings.
C19_ValidationRules ==
    Has(validation) =>
        LET v == validation[1]
            rules == ViolatedRules(config, tableInfo)
            missing == {k \in 1..Len(config.selectedColumns) :
                            config.selectedColumns[k] \notin TableColumns}
        IN /\ v.isValid = (rules = {})
           /\ v.isValid = (Len(v.errors) = 0)
           /\ ~tableInfo.exists => v.errors = <<"TableNotFound">>
           /\ tableInfo.exists =>
                /\ Range(v.errors) = rules
                /\ Len(v.errors) =
                     Cardinality(missing) + Cardinality(rules \ {"ColumnNotFound"})
           /\ \A info \in RequestTableInfos :
                info.exists = tableInfo.exists =>
                    validateConfiguration(config, info).isValid = v.isValid

\* a valid configuration answered with warnings
C19_Witness ==
    /\ Has(validation)
    /\ validation[1].isValid
    /\ validation[1].warnings # {}
    /\ status = 200

---------------------------------------------------------------------------
(* Combination enumeration and the loop over the combinations *)

FieldNames == {"c1", "c2", "c3", "c4", "c5"}

\* every list of 1 to 5 distinct field names
FieldSets ==
    {s \in UNION {[1..n -> FieldNames] : n \in 1..Cardinality(FieldNames)} :
        \A a, b \in 1..Len(s) : a # b => s[a] # s[b]}

InFieldSetOrder(combination, cols) ==
    SelectSeq(cols, LAMBDA c : c \in Range(combination)) = combination

EnumeratesSubsets(cols) ==
    LET cs == generateColumnCombinations(cols)
    IN /\ Len(cs) = Pow2(Len(cols)) - 1
       /\ \A k \in 1..Len(cs) :
            /\ Len(cs[k]) > 0
            /\ Range(cs[k]) \subseteq Range(cols)
            /\ InFieldSetOrder(cs[k], cols)
       /\ Cardinality({Range(cs[k]) : k \in 1..Len(cs)}) = Len(cs)

\* how often combination k has been run so far: returned or caught
EvaluatedTimes(k) ==
    Cardinality({j \in 1..Len(allResults) : allResults[j].combination = combinations[k]})
    + Cardinality({j \in 1..Len(errorLog) : errorLog[j] = combinations[k]})

\* the enumeration over every list of 1 to 5 distinct fields, and over the
\* fields title and description
EnumerationOfEveryFieldSet ==
    /\ \A cols \in FieldSets : EnumeratesSubsets(cols)
    /\ generateColumnCombinations(<<"title", "description">>)
         = <<<<"title">>, <<"description">>, <<"title", "description">>>>

\* C12: for every list of 1 to 5 distinct fields the enumeration yields 2^n - 1
\* combinations, each a non-empty subset of the fields in field order, no two
\* with the same members ({title, description} gives {title}, {description},
\* {title, description}); the experiment enumerates the selected columns this
\* way and runs each combination exactly once, in order.
C12_CombinationsEnumeratedOnce ==
    /\ EnumerationOfEveryFieldSet
    /\ (Has(validation) /\ validation[1].isValid) =>
         /\ config.selectedColumns \in FieldSets
         /\ combinations = generateColumnCombinations(config.selectedColumns)
         /\ \A k \in 1..Len(combinations) :
              EvaluatedTimes(k) = IF k < i THEN 1 ELSE 0
         /\ pc \in {"aggregate", "done"} => i = Len(combinations) + 1

\* an experiment over two fields that ran its three combinations to the end
C12_Witness ==
    /\ pc = "done"
    /\ Len(combinations) = 3
    /\ Len(allResults) + Len(errorLog) = 3
    /\ Len(allResults) >= 1

---------------------------------------------------------------------------
(* calculateArraySimilarity of the two metric calculators.  A JavaScript Set *)
(* is the sequence of its members in insertion order.                        *)

MaxItems == 2         \* an array handed to calculateArraySimilarity has 0..MaxItems items

Items == {"users", "Users", "orders", "ORDERS"}
ItemArrays == UNION {[1..n -> Items] : n \in 0..MaxItems}

\* String.prototype.toLowerCase on the items
toLowerCase(s) ==
    CASE s = "Users" -> "users"
      [] s = "ORDERS" -> "orders"
      [] OTHER -> s

\* array.map(item => item.toLowerCase())
LowerCased(array) == [k \in 1..Len(array) |-> toLowerCase(array[k])]

\* new Set(array)
RECURSIVE AddAll(_, _, _)
AddAll(set, array, k) ==
    IF k > Len(array) THEN set
    ELSE AddAll(IF array[k] \in Range(set) THEN set ELSE Append(set, array[k]),
                array, k + 1)

NewSet(array) == AddAll(<<>>, array, 1)

\* the comparison without the lower-casing
ArraySimilarityCaseSensitive(expected, actual) ==
    LET expectedSet == NewSet(expected)
        actualSet == NewSet(actual)
        intersection == NewSet(SelectSeq(expectedSet, LAMBDA x : x \in Range(actualSet)))
        missing == SelectSeq(expectedSet, LAMBDA x : x \notin Range(actualSet))
        extra == SelectSeq(actualSet, LAMBDA x : x \notin Range(expectedSet))
        union == NewSet(expectedSet \o actualSet)
    IN [score |-> IF Len(union) = 0 THEN <<1, 1>> ELSE <<Len(intersection), Len(union)>>,
        missing |-> missing,
        extra |-> extra]

\* the comparison with missing and extra taken the wrong way round
ArraySimilaritySwapped(expected, actual) ==
    LET expectedSet == NewSet(LowerCased(expected))
        actualSet == NewSet(LowerCased(actual))
        intersection == NewSet(SelectSeq(expectedSet, LAMBDA x : x \in Range(actualSet)))
        missing == SelectSeq(actualSet, LAMBDA x : x \notin Range(expectedSet))
        extra == SelectSeq(expectedSet, LAMBDA x : x \notin Range(actualSet))
        union == NewSet(expectedSet \o actualSet)
    IN [score |-> IF Len(union) = 0 THEN <<1, 1>> ELSE <<Len(intersection), Len(union)>>,
        missing |-> missing,
        extra |-> extra]

\* the comparison scoring two empty arrays 0
ArraySimilarityNoEmptyGuard(expected, actual) ==
    LET expectedSet == NewSet(LowerCased(expected))
        actualSet == NewSet(LowerCased(actual))
        intersection == NewSet(SelectSeq(expectedSet, LAMBDA x : x \in Range(actualSet)))
        missing == SelectSeq(expectedSet, LAMBDA x : x \notin Range(actualSet))
        extra == SelectSeq(actualSet, LAMBDA x : x \notin Range(expectedSet))
        union == NewSet(expectedSet \o actualSet)
    IN [score |-> IF Len(union) = 0 THEN <<0, 1>> ELSE <<Len(intersection), Len(union)>>,
        missing |-> missing,
        extra |-> extra]

\* SQLMetricCalculator.calculateArraySimilarity
calculateArraySimilaritySQL(expected, actual) ==
    LET expectedSet == NewSet(LowerCased(expected))
        actualSet == NewSet(LowerCased(actual))
        intersection == NewSet(SelectSeq(expectedSet, LAMBDA x : x \in Range(actualSet)))
        missing == SelectSeq(expectedSet, LAMBDA x : x \notin Range(actualSet))
        extra == SelectSeq(actualSet, LAMBDA x : x \notin Range(expectedSet))
        union == NewSet(expectedSet \o actualSet)
    IN [score |-> IF Len(union) = 0 THEN <<1, 1>> ELSE <<Len(intersection), Len(union)>>,
        missing |-> missing,
        extra |-> extra]

\* BRDRMetricCalculator.calculateArraySimilarity
calculateArraySimilarityBRDR(expected, actual) ==
    LET expectedSet == NewSet(LowerCased(expected))
        actualSet == NewSet(LowerCased(actual))
        intersection == NewSet(SelectSeq(expectedSet, LAMBDA x : x \in Range(actualSet)))
        missing == SelectSeq(expectedSet, LAMBDA x : x \notin Range(actualSet))
        extra == SelectSeq(actualSet, LAMBDA x : x \notin Range(expectedSet))
        union == NewSet(expectedSet \o actualSet)
    IN [score |-> IF Len(union) = 0 THEN <<1, 1>> ELSE <<Len(intersection), Len(union)>>,
        missing |-> missing,
        extra |-> extra]

\* the handler at rest: the calculators, the form and the export are used
\* outside a request
NoExperiment ==
    /\ combinations = <<>>
    /\ i = 1
    /\ allResults = <<>>
    /\ summary = NoValue
    /\ errorLog = <<>>
    /\ call = "none"
    /\ data = <<>>
    /\ trainingData = <<>>
    /\ testingData = <<>>
    /\ trainingEmbeddings = NoValue
    /\ ti = 1
    /\ results = <<>>
    /\ totalSimilarity = 0
    /\ rowOutcome = <<>>
    /\ nFetch = 0
    /\ nSplit = 0
    /\ nBuild = 0
    /\ emptyFetch = FALSE

NoRequest ==
    /\ config = NoValue
    /\ tableInfo = NoValue
    /\ pc = "idle"
    /\ status = 0
    /\ validation = NoValue
    /\ NoExperiment

requestVars == <<config, tableInfo, pc, status, validation, experimentVars, callVars,
                 counters>>

InitSimilarity ==
    /\ NoRequest
    /\ NoForm
    /\ NoExport
    /\ NoPage
    /\ engine \in {"sql", "brdr"}
    /\ weights = <<>>
    /\ nUpdates = 0
    /\ lastCall = NoValue

\* one call of calculateArraySimilarity of the structured-query engine, on any
\* two arrays
SimilaritySQL ==
    /\ engine = "sql"
    /\ lastCall = NoValue
    /\ \E expected, actual \in ItemArrays :
         lastCall' = Some([expected |-> expected, actual |-> actual,
                           result |-> calculateArraySimilaritySQL(expected, actual)])
    /\ UNCHANGED <<requestVars, engine, weights, nUpdates, formVars, exportVars, pageVars>>

\* one call of calculateArraySimilarity of the domain-document engine, on any
\* two arrays
SimilarityBRDR ==
    /\ engine = "brdr"
    /\ lastCall = NoValue
    /\ \E expected, actual \in ItemArrays :
         lastCall' = Some([expected |-> expected, actual |-> actual,
                           result |-> calculateArraySimilarityBRDR(expected, actual)])
    /\ UNCHANGED <<requestVars, engine, weights, nUpdates, formVars, exportVars, pageVars>>

NextSimilarity ==
    \/ SimilaritySQL
    \/ SimilarityBRDR

SpecSimilarity == InitSimilarity /\ [][NextSimilarity]_vars

\* the copy of calculateArraySimilarity the engine of this behaviour has
SimilarityOf(expected, actual) ==
    IF engine = "sql" THEN calculateArraySimilaritySQL(expected, actual)
    ELSE calculateArraySimilarityBRDR(expected, actual)

LowerSet(array) == {toLowerCase(array[k]) : k \in 1..Len(array)}

\* C13: in both engines the score is |E n A| / |E u A| over the lower-cased
\* sets, 1 when both are empty, 0 exactly when the union is non-empty and the
\* intersection empty; it lies in [0,1], is 1 for an array against itself and
\* is the same with the arguments exchanged.
C13_JaccardScore ==
    Has(lastCall) =>
        LET E == LowerSet(lastCall[1].expected)
            A == LowerSet(lastCall[1].actual)
            s == lastCall[1].result.score
        IN /\ s[2] > 0
           /\ E \cup A = {} => s = <<1, 1>>
           /\ E \cup A # {} => FracEQ(s, <<Cardinality(E \cap A), Cardinality(E \cup A)>>)
           /\ (s[1] = 0) = (E \cup A # {} /\ E \cap A = {})
           /\ FracLE(<<0, 1>>, s) /\ FracLE(s, <<1, 1>>)
           /\ FracEQ(SimilarityOf(lastCall[1].expected, lastCall[1].expected).score, <<1, 1>>)
           /\ FracEQ(SimilarityOf(lastCall[1].actual, lastCall[1].expected).score, s)

\* arrays that overlap only once their case is ignored
C13_Witness ==
    /\ Has(lastCall)
    /\ lastCall[1].expected = <<"Users", "orders">>
    /\ lastCall[1].actual = <<"users">>
    /\ lastCall[1].result.score = <<1, 2>>

\* C14: missing is expected minus actual and extra is actual minus expected,
\* over the lower-cased sets and without duplicates; missing, extra and the
\* intersection are pairwise disjoint and together make the union (expected
\* {users, orders} and actual {users}: score 1/2, missing {orders}, extra {}).
C14_MissingAndExtra ==
    /\ SimilarityOf(<<"users", "orders">>, <<"users">>)
         = [score |-> <<1, 2>>, missing |-> <<"orders">>, extra |-> <<>>]
    /\ Has(lastCall) =>
         LET E == LowerSet(lastCall[1].expected)
             A == LowerSet(lastCall[1].actual)
             missing == lastCall[1].result.missing
             extra == lastCall[1].result.extra
         IN /\ Range(missing) = E \ A
            /\ Range(extra) = A \ E
            /\ Len(missing) = Cardinality(Range(missing))
            /\ Len(extra) = Cardinality(Range(extra))
            /\ Range(missing) \cap Range(extra) = {}
            /\ Range(missing) \cap (E \cap A) = {}
            /\ Range(extra) \cap (E \cap A) = {}
            /\ Range(missing) \cup Range(extra) \cup (E \cap A) = E \cup A

\* arrays with a repeated item, one item missing and one extra
C14_Witness ==
    /\ Has(lastCall)
    /\ lastCall[1].expected = <<"Users", "users">>
    /\ lastCall[1].actual = <<"ORDERS", "orders">>
    /\ lastCall[1].result.missing = <<"users">>
    /\ lastCall[1].result.extra = <<"orders">>

---------------------------------------------------------------------------
(* The two metric calculators: constructor, updateWeights, calculate.       *)
(* A weight is a number of hundredths (25 is 0.25); a score is a fraction.  *)
(* A text is what the extraction of the engine reads from it: for a query,  *)
(* whether sql-parser-cst accepts it, the tables and columns the extraction *)
(* that applies finds, the join types it contains and its keywords; for a   *)
(* document, its features and the number of its regulatory, procedural and  *)
(* technical terms.                                                         *)

MaxUpdates == 1       \* updateWeights is called 0..MaxUpdates times

RECURSIVE GCD(_, _)
GCD(a, b) == IF b = 0 THEN a ELSE GCD(b, a % b)

Abs(n) == IF n < 0 THEN -n ELSE n

FracNorm(f) ==
    LET g == GCD(Abs(f[1]), f[2])
    IN <<f[1] \div g, f[2] \div g>>

FracSum(a, b) == FracNorm(FracAdd(a, b))
\* f * weight, the weight in hundredths
Weighted(f, weight) == FracNorm(<<f[1] * weight, f[2] * 100>>)
\* f * num / 10
Tenths(f, num) == FracNorm(<<f[1] * num, f[2] * 10>>)
FracMin(a, b) == IF FracLE(a, b) THEN a ELSE b
FracMax(a, b) == IF FracLE(a, b) THEN b ELSE a

\* a clamp that bounds from above only
ClampAbove(x) == FracMin(<<1, 1>>, x)

\* Math.max(0, Math.min(1, overallScore))
Clamp(x) == FracMax(<<0, 1>>, FracMin(<<1, 1>>, x))

\* default weights with part of the syntax weight moved to the keywords
DefaultWeightsSQLSyntaxLight ==
    [tables |-> 25, columns |-> 25, joins |-> 20, syntax |-> 10, keywords |-> 15,
     differences |-> 5]

DefaultWeightsSQL ==
    [tables |-> 25, columns |-> 25, joins |-> 20, syntax |-> 15, keywords |-> 10,
     differences |-> 5]

DefaultWeightsBRDR ==
    [semanticSimilarity |-> 20, documentRelevance |-> 15, conceptAccuracy |-> 15,
     topicAlignment |-> 15, keywordPresence |-> 10, regulatoryCompliance |-> 15,
     contextualCoherence |-> 10]

\* the Partial<weights> values a caller passes
PartialWeightsSQL ==
    {[tables |-> 300], [joins |-> -100], [syntax |-> -100], [differences |-> 0]}

PartialWeightsBRDR ==
    {[semanticSimilarity |-> 300], [contextualCoherence |-> -100],
     [documentRelevance |-> -100], [keywordPresence |-> 0]}

\* { ...this.config.weights, ...newWeights }
updateWeights(current, newWeights) ==
    [k \in DOMAIN current |-> IF k \in DOMAIN newWeights THEN newWeights[k] ELSE current[k]]

SqlTexts ==
    [parses : BOOLEAN,
     tables : {<<>>, <<"users">>, <<"users", "orders">>},
     columns : {<<>>, <<"id">>},
     joins : {<<>>, <<"join">>},
     keywords : {<<"select", "from">>}]
    \cup [parses : BOOLEAN, tables : {<<>>}, columns : {<<>>}, joins : {<<>>},
          keywords : {<<>>}]
    \cup [parses : {TRUE}, tables : {<<"a", "b", "c">>}, columns : {<<"x", "y", "z">>},
          joins : {<<>>}, keywords : {<<"select", "from">>}]
    \cup [parses : BOOLEAN, tables : {<<"d", "e", "f">>}, columns : {<<"u", "v", "w">>},
          joins : {<<"left join", "join">>}, keywords : {<<"select", "from", "join">>}]

\* an analysis that gives up when the parser rejects the query
analyzeSQLWithoutFallback(query) ==
    [tables |-> IF query.parses THEN query.tables ELSE <<>>,
     columns |-> IF query.parses THEN query.columns ELSE <<>>,
     joins |-> <<>>,
     keywords |-> query.keywords,
     isValid |-> query.parses]

\* analyzeSQL: the parser's verdict; extractFromAST fills tables and columns and
\* leaves joins empty, extractWithRegex fills tables, joins and columns; the
\* keywords are extracted either way.
analyzeSQL(query) ==
    [tables |-> query.tables,
     columns |-> query.columns,
     joins |-> IF query.parses THEN <<>> ELSE query.joins,
     keywords |-> query.keywords,
     isValid |-> query.parses]

Max(a, b) == IF a >= b THEN a ELSE b

\* a penalty that is not held at 0
differencesScoreUnclamped(totalDifferences) == <<10 - totalDifferences, 10>>

\* Math.max(0, 1 - (totalDifferences * 0.1))
differencesScore(totalDifferences) == <<Max(0, 10 - totalDifferences), 10>>

\* the weighted sum of SQLMetricCalculator.calculate
weightedScoreSQL(w, breakdown) ==
    FracSum(FracSum(FracSum(FracSum(FracSum(
        Weighted(breakdown.tablesScore, w.tables),
        Weighted(breakdown.columnsScore, w.columns)),
        Weighted(breakdown.joinsScore, w.joins)),
        Weighted(breakdown.syntaxScore, w.syntax)),
        Weighted(breakdown.keywordsScore, w.keywords)),
        Weighted(breakdown.differencesScore, w.differences))

\* SQLMetricCalculator.calculate
calculateSQL(w, expectedSQL, actualSQL) ==
    LET expectedAnalysis == analyzeSQL(expectedSQL)
        actualAnalysis == analyzeSQL(actualSQL)
        tablesComparison ==
            calculateArraySimilaritySQL(expectedAnalysis.tables, actualAnalysis.tables)
        columnsComparison ==
            calculateArraySimilaritySQL(expectedAnalysis.columns, actualAnalysis.columns)
        joinsComparison ==
            calculateArraySimilaritySQL(expectedAnalysis.joins, actualAnalysis.joins)
        keywordsComparison ==
            calculateArraySimilaritySQL(expectedAnalysis.keywords, actualAnalysis.keywords)
        syntaxScore == IF actualAnalysis.isValid THEN <<1, 1>> ELSE <<0, 1>>
        totalDifferences ==
            Len(tablesComparison.missing) + Len(tablesComparison.extra)
            + Len(columnsComparison.missing) + Len(columnsComparison.extra)
            + Len(joinsComparison.missing) + Len(joinsComparison.extra)
            + Len(keywordsComparison.missing) + Len(keywordsComparison.extra)
        breakdown ==
            [tablesScore |-> tablesComparison.score,
             columnsScore |-> columnsComparison.score,
             joinsScore |-> joinsComparison.score,
             syntaxScore |-> syntaxScore,
             keywordsScore |-> keywordsComparison.score,
             differencesScore |-> differencesScore(totalDifferences)]
    IN [overallScore |-> Clamp(weightedScoreSQL(w, breakdown)),
        breakdown |-> breakdown]

BrdrTexts ==
    [documentTypes : {<<>>, <<"policy">>},
     regulatoryTopics : {<<>>, <<"capital adequacy">>},
     concepts : {<<>>, <<"liquidity">>},
     keywords : {<<"bank">>},
     complianceTerms : {<<>>, <<"compliance">>},
     riskFactors : {<<"risk">>},
     termHits : {[regulatory |-> 3, procedural |-> 0, technical |-> 0],
                 [regulatory |-> 1, procedural |-> 0, technical |-> 0]}]
    \cup [documentTypes : {<<>>}, regulatoryTopics : {<<>>}, concepts : {<<>>},
          keywords : {<<>>}, complianceTerms : {<<>>}, riskFactors : {<<>>},
          termHits : {[regulatory |-> 0, procedural |-> 0, technical |-> 0]}]

\* a classification that looks at the procedural terms first
classifySemanticTypeProceduralFirst(hits) ==
    IF hits.procedural >= 2 THEN "procedural"
    ELSE IF hits.regulatory >= 3 THEN "regulatory"
    ELSE IF hits.technical >= 2 THEN "technical"
    ELSE IF hits.regulatory > 0 \/ hits.procedural > 0 \/ hits.technical > 0 THEN "mixed"
    ELSE "informational"

classifySemanticType(hits) ==
    IF hits.regulatory >= 3 THEN "regulatory"
    ELSE IF hits.procedural >= 2 THEN "procedural"
    ELSE IF hits.technical >= 2 THEN "technical"
    ELSE IF hits.regulatory > 0 \/ hits.procedural > 0 \/ hits.technical > 0 THEN "mixed"
    ELSE "informational"

extractBRDRFeatures(text) ==
    [documentTypes |-> text.documentTypes,
     regulatoryTopics |-> text.regulatoryTopics,
     concepts |-> text.concepts,
     keywords |-> text.keywords,
     complianceTerms |-> text.complianceTerms,
     riskFactors |-> text.riskFactors,
     semanticClass |-> classifySemanticType(text.termHits)]

\* a blend that weighs the keywords like the topics and the concepts half
calculateSemanticSimilarityKeywordHeavy(expected, actual) ==
    LET conceptSim == calculateArraySimilarityBRDR(expected.concepts, actual.concepts).score
        topicSim == calculateArraySimilarityBRDR(expected.regulatoryTopics,
                                                 actual.regulatoryTopics).score
        keywordSim == calculateArraySimilarityBRDR(expected.keywords, actual.keywords).score
    IN FracSum(FracSum(Tenths(conceptSim, 2), Tenths(topicSim, 4)), Tenths(keywordSim, 4))

calculateSemanticSimilarity(expected, actual) ==
    LET conceptSim == calculateArraySimilarityBRDR(expected.concepts, actual.concepts).score
        topicSim == calculateArraySimilarityBRDR(expected.regulatoryTopics,
                                                 actual.regulatoryTopics).score
        keywordSim == calculateArraySimilarityBRDR(expected.keywords, actual.keywords).score
    IN FracSum(FracSum(Tenths(conceptSim, 4), Tenths(topicSim, 4)), Tenths(keywordSim, 2))

\* the weighted sum of BRDRMetricCalculator.calculate
weightedScoreBRDR(w, breakdown) ==
    FracSum(FracSum(FracSum(FracSum(FracSum(FracSum(
        Weighted(breakdown.semanticSimilarityScore, w.semanticSimilarity),
        Weighted(breakdown.documentRelevanceScore, w.documentRelevance)),
        Weighted(breakdown.conceptAccuracyScore, w.conceptAccuracy)),
        Weighted(breakdown.topicAlignmentScore, w.topicAlignment)),
        Weighted(breakdown.keywordPresenceScore, w.keywordPresence)),
        Weighted(breakdown.regulatoryComplianceScore, w.regulatoryCompliance)),
        Weighted(breakdown.contextualCoherenceScore, w.contextualCoherence))

\* BRDRMetricCalculator.calculate
calculateBRDR(w, expectedText, actualText) ==
    LET expectedAnalysis == extractBRDRFeatures(expectedText)
        actualAnalysis == extractBRDRFeatures(actualText)
        semanticSimilarityScore == calculateSemanticSimilarity(expectedAnalysis, actualAnalysis)
        documentRelevanceScore ==
            calculateArraySimilarityBRDR(expectedAnalysis.documentTypes,
                                         actualAnalysis.documentTypes).score
        conceptComparison ==
            calculateArraySimilarityBRDR(expectedAnalysis.concepts, actualAnalysis.concepts)
        topicComparison ==
            calculateArraySimilarityBRDR(expectedAnalysis.regulatoryTopics,
                                         actualAnalysis.regulatoryTopics)
        keywordComparison ==
            calculateArraySimilarityBRDR(expectedAnalysis.keywords, actualAnalysis.keywords)
        regulatoryComplianceScore ==
            calculateArraySimilarityBRDR(
                expectedAnalysis.complianceTerms \o expectedAnalysis.riskFactors,
                actualAnalysis.complianceTerms \o actualAnalysis.riskFactors).score
        semanticClassMatch == expectedAnalysis.semanticClass = actualAnalysis.semanticClass
        contextualCoherenceScore == IF semanticClassMatch THEN <<1, 1>> ELSE <<1, 2>>
        breakdown ==
            [semanticSimilarityScore |-> semanticSimilarityScore,
             documentRelevanceScore |-> documentRelevanceScore,
             conceptAccuracyScore |-> conceptComparison.score,
             topicAlignmentScore |-> topicComparison.score,
             keywordPresenceScore |-> keywordComparison.score,
             regulatoryComplianceScore |-> regulatoryComplianceScore,
             contextualCoherenceScore |-> contextualCoherenceScore]
    IN [overallScore |-> Clamp(weightedScoreBRDR(w, breakdown)),
        breakdown |-> breakdown]

\* new SQLMetricCalculator(config) or new BRDRMetricCalculator(config), with or
\* without weights in config
InitMetrics ==
    /\ NoRequest
    /\ NoForm
    /\ NoExport
    /\ NoPage
    /\ engine \in {"sql", "brdr"}
    /\ \/ weights = IF engine = "sql" THEN DefaultWeightsSQL ELSE DefaultWeightsBRDR
       \/ /\ engine = "sql"
          /\ \E p \in PartialWeightsSQL : weights = updateWeights(DefaultWeightsSQL, p)
       \/ /\ engine = "brdr"
          /\ \E p \in PartialWeightsBRDR : weights = updateWeights(DefaultWeightsBRDR, p)
    /\ nUpdates = 0
    /\ lastCall = NoValue

\* updateWeights(newWeights); calculate leaves the weights alone, so the calls
\* of updateWeights before it are the ones that count
UpdateWeights ==
    /\ lastCall = NoValue
    /\ nUpdates < MaxUpdates
    /\ nUpdates' = nUpdates + 1
    /\ \E p \in IF engine = "sql" THEN PartialWeightsSQL ELSE PartialWeightsBRDR :
         weights' = updateWeights(weights, p)
    /\ UNCHANGED <<requestVars, engine, lastCall, formVars, exportVars, pageVars>>

CalculateSQL ==
    /\ engine = "sql"
    /\ lastCall = NoValue
    /\ \E expectedSQL, actualSQL \in SqlTexts :
         lastCall' = Some([expected |-> expectedSQL, actual |-> actualSQL,
                           result |-> calculateSQL(weights, expectedSQL, actualSQL)])
    /\ UNCHANGED <<requestVars, engine, weights, nUpdates, formVars, exportVars, pageVars>>

CalculateBRDR ==
    /\ engine = "brdr"
    /\ lastCall = NoValue
    /\ \E expectedText, actualText \in BrdrTexts :
         lastCall' = Some([expected |-> expectedText, actual |-> actualText,
                           result |-> calculateBRDR(weights, expectedText, actualText)])
    /\ UNCHANGED <<requestVars, engine, weights, nUpdates, formVars, exportVars, pageVars>>

NextMetrics ==
    \/ UpdateWeights
    \/ CalculateSQL
    \/ CalculateBRDR

SpecMetrics == InitMetrics /\ [][NextMetrics]_vars

\* the weighted sum before the clamp, of the latest call
RawScore ==
    IF engine = "sql" THEN weightedScoreSQL(weights, lastCall[1].result.breakdown)
    ELSE weightedScoreBRDR(weights, lastCall[1].result.breakdown)

\* the weights in hundredths add up to this
WeightTotal ==
    IF engine = "sql"
    THEN weights.tables + weights.columns + weights.joins + weights.syntax
         + weights.keywords + weights.differences
    ELSE weights.semanticSimilarity + weights.documentRelevance + weights.conceptAccuracy
         + weights.topicAlignment + weights.keywordPresence + weights.regulatoryCompliance
         + weights.contextualCoherence

C16_IdenticalParsedScoresOne ==
    (/\ Has(lastCall)
     /\ engine = "sql"
     /\ weights = DefaultWeightsSQL
     /\ lastCall[1].expected = lastCall[1].actual
     /\ lastCall[1].actual.parses) =>
        LET b == lastCall[1].result.breakdown
        IN /\ FracEQ(lastCall[1].result.overallScore, <<1, 1>>)
           /\ FracEQ(b.tablesScore, <<1, 1>>)
           /\ FracEQ(b.columnsScore, <<1, 1>>)
           /\ FracEQ(b.joinsScore, <<1, 1>>)
           /\ FracEQ(b.syntaxScore, <<1, 1>>)
           /\ FracEQ(b.keywordsScore, <<1, 1>>)
           /\ FracEQ(b.differencesScore, <<1, 1>>)

\* SELECT id FROM users against itself
C16_Witness ==
    /\ Has(lastCall)
    /\ engine = "sql"
    /\ weights = DefaultWeightsSQL
    /\ lastCall[1].expected = lastCall[1].actual
    /\ lastCall[1].actual = [parses |-> TRUE, tables |-> <<"users">>, columns |-> <<"id">>,
                             joins |-> <<>>, keywords |-> <<"select", "from">>]
    /\ lastCall[1].result.overallScore = <<1, 1>>

---------------------------------------------------------------------------
(* exportResults and importResults.  A Date is [date |-> ms]; the string    *)
(* Date.prototype.toJSON makes of it is [isoString |-> ms]; a JSON text is  *)
(* [json |-> the value it denotes].                                         *)

Timestamps == {1000, 2000, 3000}

\* new Date()
Date(ms) == [date |-> ms]

\* Date.prototype.toJSON, which JSON.stringify calls: toISOString()
toJSON(d) == [isoString |-> d.date]

\* the TestResult runSingleTest returns, with its timestamp
StampedTestResult(combination, rs, total, testRows, ms) ==
    [result |-> TestResultOf(combination, rs, total, testRows), timestamp |-> Date(ms)]

\* the ExperimentResults runFullExperiment returns
ExperimentResultsOf(rs, ms) ==
    [timestamp |-> Date(ms),
     allResults |-> rs,
     summary |-> SummaryOf([k \in 1..Len(rs) |-> rs[k].result])]

RowResults == {<<>>, <<[testIndex |-> 1, similarity |-> 1, score |-> 1]>>}

StampedTestResults(k) ==
    {StampedTestResult(generateColumnCombinations(CandidateFields)[k], rs, Len(rs), <<1>>, ms) :
        rs \in RowResults, ms \in Timestamps}

\* what the orchestrator can hand to exportResults: one or two combination
\* results, in combination order
ProducedExperimentResults ==
    {ExperimentResultsOf(<<a>>, ms) : a \in StampedTestResults(1), ms \in Timestamps}
    \cup {ExperimentResultsOf(<<a, b>>, ms) :
            a \in StampedTestResults(1), b \in StampedTestResults(2), ms \in Timestamps}

\* JSON.stringify(results, null, 2)
exportResults(rs) ==
    [json |->
        [timestamp |-> toJSON(rs.timestamp),
         allResults |-> [k \in 1..Len(rs.allResults) |->
                            [result |-> rs.allResults[k].result,
                             timestamp |-> toJSON(rs.allResults[k].timestamp)]],
         summary |-> rs.summary]]

\* JSON.parse(jsonString), without a reviver
importResults(text) == text.json

InitExport ==
    /\ NoRequest
    /\ NoCalculator
    /\ NoForm
    /\ NoPage
    /\ \E rs \in ProducedExperimentResults : experimentResults = Some(rs)
    /\ jsonString = NoValue
    /\ imported = NoValue

ExportResults ==
    /\ jsonString = NoValue
    /\ jsonString' = Some(exportResults(experimentResults[1]))
    /\ UNCHANGED <<requestVars, metricVars, formVars, experimentResults, imported, pageVars>>

ImportResults ==
    /\ Has(jsonString)
    /\ imported = NoValue
    /\ imported' = Some(importResults(jsonString[1]))
    /\ UNCHANGED <<requestVars, metricVars, formVars, experimentResults, jsonString, pageVars>>

NextExport ==
    \/ ExportResults
    \/ ImportResults

SpecExport == InitExport /\ [][NextExport]_vars

\* C17: importResults of exportResults of an ExperimentResults value is equal
\* to it field for field, the timestamps included.
C17_Original ==
    Has(imported) =>
        /\ imported[1].timestamp = experimentResults[1].timestamp
        /\ imported[1].summary = experimentResults[1].summary
        /\ Len(imported[1].allResults) = Len(experimentResults[1].allResults)
        /\ \A k \in 1..Len(imported[1].allResults) :
             /\ imported[1].allResults[k].result = experimentResults[1].allResults[k].result
             /\ imported[1].allResults[k].timestamp
                  = experimentResults[1].allResults[k].timestamp

---------------------------------------------------------------------------
(* The configuration form (components/TestConfiguration.tsx): the column    *)
(* toggles.                                                                 *)

\* the columns of tableInfo the form offers
AvailableColumns == {"c1", "c2", "c3", "c4", "c5", "c6"}

Min(a, b) == IF a <= b THEN a ELSE b

\* array.slice(0, end)
Slice0(array, end) == SubSeq(array, 1, Min(end, Len(array)))

\* a toggle that appends without the limit
ToggleColumnUnlimited(selectedColumns, columnName) ==
    IF columnName \in Range(selectedColumns)
    THEN SelectSeq(selectedColumns, LAMBDA col : col # columnName)
    ELSE Append(selectedColumns, columnName)

\* the selectedColumns handleColumnToggle sets
ToggleColumn(selectedColumns, columnName) ==
    IF columnName \in Range(selectedColumns)
    THEN SelectSeq(selectedColumns, LAMBDA col : col # columnName)
    ELSE Slice0(Append(selectedColumns, columnName), 5)

\* useState<TestConfig>(...): the form as it is first rendered
InitForm ==
    /\ config = [selectedColumns |-> <<>>, yColumn |-> "", queryColumn |-> "",
                 answerColumn |-> "", trainingRatio |-> 80]
    /\ tableInfo = [exists |-> TRUE, rowCount |-> 3]
    /\ pc = "form"
    /\ status = 0
    /\ validation = NoValue
    /\ NoExperiment
    /\ NoCalculator
    /\ NoExport
    /\ NoPage
    /\ toggled = NoValue

handleColumnToggle ==
    /\ pc = "form"
    /\ \E columnName \in AvailableColumns :
         /\ config' = [config EXCEPT
                         !.selectedColumns = ToggleColumn(config.selectedColumns, columnName)]
         /\ toggled' = Some(columnName)
    /\ UNCHANGED <<tableInfo, pc, status, validation, experimentVars, callVars, counters,
                   metricVars, exportVars, pageVars>>

NextForm == handleColumnToggle

SpecForm == InitForm /\ [][NextForm]_vars

\* C18: every toggle leaves selectedColumns without a duplicate and with at
\* most 5 names: a selected column is removed, the others keeping their
\* order; an unselected column is appended at the end while fewer than 5 are
\* selected, and is ignored otherwise.
C18_ToggleKeepsFieldSet ==
    [][LET old == config.selectedColumns
           new == config'.selectedColumns
           c == toggled'[1]
       IN /\ Len(new) <= 5
          /\ Cardinality(Range(new)) = Len(new)
          /\ c \in Range(old) => new = SelectSeq(old, LAMBDA col : col # c)
          /\ (c \notin Range(old) /\ Len(old) < 5) => new = Append(old, c)
          /\ (c \notin Range(old) /\ Len(old) >= 5) => new = old]_vars

\* five columns selected and a sixth toggled, which is not taken
C18_Witness ==
    /\ pc = "form"
    /\ Len(config.selectedColumns) = 5
    /\ Has(toggled)
    /\ toggled[1] \notin Range(config.selectedColumns)

---------------------------------------------------------------------------
(* The mean similarity of a combination result *)

RECURSIVE SumSimilarities(_, _)
SumSimilarities(rs, k) ==
    IF k > Len(rs) THEN 0 ELSE rs[k].similarity + SumSimilarities(rs, k + 1)

\* C20: the averageSimilarity of a combination result is the mean of the
\* similarity of the rows in its result list, the rows totalTests counts, and
\* 0 when the list is empty: skipped and failed rows add nothing to it.
C20_Original ==
    call = "returned" =>
        /\ LastResult.totalTests = Len(results)
        /\ IF Len(results) = 0
           THEN LastResult.averageSimilarity[1] = 0
           ELSE FracEQ(LastResult.averageSimilarity,
                       <<SumSimilarities(results, 1), Len(results)>>)

---------------------------------------------------------------------------
(* One index per combination; the experiment that returned *)

\* C21: processTrainingData is called at most once for each combination, the
\* combinations are handled one after another in enumeration order, and the
\* rows of a combination are answered from the index built for it, from its
\* own training rows.
C21_OneIndexPerCombination ==
    /\ nBuild <= nFetch
    /\ nFetch = IF pc \in {"build", "row"} THEN i ELSE i - 1
    /\ Len(allResults) + Len(errorLog) = i - 1
    /\ pc \in {"build", "row"} => i <= Len(combinations)
    /\ pc = "row" =>
         /\ Has(trainingEmbeddings)
         /\ trainingEmbeddings[1].combination = combinations[i]
         /\ trainingEmbeddings[1].rows = trainingData

\* the second combination answering rows from its own index
C21_Witness ==
    /\ pc = "row"
    /\ i = 2
    /\ nBuild = 2
    /\ Len(rowOutcome) >= 1
    /\ trainingEmbeddings[1].combination = combinations[2]

----------------------------------------------------------------------------
(* The structured-query engine on texts the parser rejects, on joins and on *)
(* the difference penalty.                                                   *)

\* C22: calculate returns a result for every pair of texts; a text the parser
\* rejects is analysed by the regular expressions with isValid = false, and
\* the syntax sub-score is 0 when the actual text is rejected and 1 otherwise.
C22_RejectedTextFallsBack ==
    (Has(lastCall) /\ engine = "sql") =>
        LET e == lastCall[1].expected
            a == lastCall[1].actual
            r == lastCall[1].result
        IN /\ r.overallScore[2] > 0
           /\ r.breakdown.syntaxScore = IF a.parses THEN <<1, 1>> ELSE <<0, 1>>
           /\ \A q \in {e, a} :
                /\ analyzeSQL(q).isValid = q.parses
                /\ ~q.parses =>
                     /\ analyzeSQL(q).tables = q.tables
                     /\ analyzeSQL(q).columns = q.columns
                     /\ analyzeSQL(q).joins = q.joins
                     /\ analyzeSQL(q).keywords = q.keywords

\* an accepted text against a rejected one that names a table and a join
C22_Witness ==
    /\ Has(lastCall)
    /\ engine = "sql"
    /\ lastCall[1].expected.parses
    /\ ~lastCall[1].actual.parses
    /\ lastCall[1].actual.tables # <<>>
    /\ lastCall[1].actual.joins # <<>>
    /\ lastCall[1].result.breakdown.syntaxScore = <<0, 1>>
    /\ FracLT(<<0, 1>>, lastCall[1].result.overallScore)

\* C23: two statements the parser accepts whose joins differ get a joins
\* sub-score below 1.
C23_Original ==
    (/\ Has(lastCall)
     /\ engine = "sql"
     /\ lastCall[1].expected.parses
     /\ lastCall[1].actual.parses
     /\ LowerSet(lastCall[1].expected.joins) # LowerSet(lastCall[1].actual.joins)) =>
        FracLT(lastCall[1].result.breakdown.joinsScore, <<1, 1>>)

\* missing plus extra names of one comparison
Mismatches(expected, actual) ==
    Cardinality(LowerSet(expected) \ LowerSet(actual))
    + Cardinality(LowerSet(actual) \ LowerSet(expected))

\* d of the latest call: the mismatches over tables, columns, joins, keywords
TotalMismatches ==
    LET e == analyzeSQL(lastCall[1].expected)
        a == analyzeSQL(lastCall[1].actual)
    IN Mismatches(e.tables, a.tables) + Mismatches(e.columns, a.columns)
       + Mismatches(e.joins, a.joins) + Mismatches(e.keywords, a.keywords)

\* C24: the difference-penalty sub-score is max(0, 1 - 0.1 * d): 1 when d = 0,
\* a tenth less per mismatch, 0 for every d >= 10.
C24_DifferencePenalty ==
    (Has(lastCall) /\ engine = "sql") =>
        LET d == TotalMismatches
            s == lastCall[1].result.breakdown.differencesScore
        IN /\ s[2] > 0
           /\ d = 0 => FracEQ(s, <<1, 1>>)
           /\ d < 10 => FracEQ(s, <<10 - d, 10>>)
           /\ d >= 10 => FracEQ(s, <<0, 1>>)

\* more than ten mismatches
C24_Witness ==
    /\ Has(lastCall)
    /\ engine = "sql"
    /\ TotalMismatches > 10
    /\ lastCall[1].result.breakdown.differencesScore[1] = 0

\* C30: with the default weights a text the parser rejects, against itself,
\* scores 1 in the four set comparisons and in the difference penalty, 0 in
\* syntax, and 0.85 overall.
C30_IdenticalRejectedScores ==
    (/\ Has(lastCall)
     /\ engine = "sql"
     /\ weights = DefaultWeightsSQL
     /\ lastCall[1].expected = lastCall[1].actual
     /\ ~lastCall[1].actual.parses) =>
        LET b == lastCall[1].result.breakdown
        IN /\ FracEQ(b.tablesScore, <<1, 1>>)
           /\ FracEQ(b.columnsScore, <<1, 1>>)
           /\ FracEQ(b.joinsScore, <<1, 1>>)
           /\ FracEQ(b.keywordsScore, <<1, 1>>)
           /\ FracEQ(b.differencesScore, <<1, 1>>)
           /\ FracEQ(b.syntaxScore, <<0, 1>>)
           /\ FracEQ(lastCall[1].result.overallScore, <<85, 100>>)

\* a rejected text with tables, columns and joins against itself
C30_Witness ==
    /\ Has(lastCall)
    /\ engine = "sql"
    /\ weights = DefaultWeightsSQL
    /\ nUpdates = 0
    /\ lastCall[1].expected = lastCall[1].actual
    /\ ~lastCall[1].actual.parses
    /\ Len(lastCall[1].actual.tables) = 3
    /\ Len(lastCall[1].actual.joins) = 2
    /\ lastCall[1].result.overallScore = <<17, 20>>

----------------------------------------------------------------------------
(* The domain-document engine: the overall score.                           *)

\* |E n A| / |E u A| of two arrays of lower-case terms, 1 when both are empty
SetSimilarity(expected, actual) ==
    LET E == Range(expected)
        A == Range(actual)
    IN IF E \cup A = {} THEN <<1, 1>>
       ELSE <<Cardinality(E \cap A), Cardinality(E \cup A)>>

\* C26: with the default weights the overall score is the sum, clamped to
\* [0,1], of 0.20 semantic + 0.15 document + 0.15 concept + 0.15 topic
\* + 0.10 keyword + 0.15 compliance + 0.10 coherence, where semantic is
\* 0.4 concept + 0.4 topic + 0.2 keyword, compliance compares the compliance
\* terms joined with the risk terms, and coherence is 1 for equal semantic
\* classes and 0.5 otherwise.
C26_WeightedSevenSubScores ==
    (/\ Has(lastCall)
     /\ engine = "brdr"
     /\ weights = DefaultWeightsBRDR) =>
        LET e == lastCall[1].expected
            a == lastCall[1].actual
            b == lastCall[1].result.breakdown
            concept == SetSimilarity(e.concepts, a.concepts)
            topic == SetSimilarity(e.regulatoryTopics, a.regulatoryTopics)
            keyword == SetSimilarity(e.keywords, a.keywords)
            document == SetSimilarity(e.documentTypes, a.documentTypes)
            compliance == SetSimilarity(e.complianceTerms \o e.riskFactors,
                                        a.complianceTerms \o a.riskFactors)
            semantic == FracSum(FracSum(<<4 * concept[1], 10 * concept[2]>>,
                                        <<4 * topic[1], 10 * topic[2]>>),
                                <<2 * keyword[1], 10 * keyword[2]>>)
            coherence == IF classifySemanticType(e.termHits) = classifySemanticType(a.termHits)
                         THEN <<1, 1>> ELSE <<1, 2>>
            total ==
                FracSum(FracSum(FracSum(FracSum(FracSum(FracSum(
                    <<20 * semantic[1], 100 * semantic[2]>>,
                    <<15 * document[1], 100 * document[2]>>),
                    <<15 * concept[1], 100 * concept[2]>>),
                    <<15 * topic[1], 100 * topic[2]>>),
                    <<10 * keyword[1], 100 * keyword[2]>>),
                    <<15 * compliance[1], 100 * compliance[2]>>),
                    <<10 * coherence[1], 100 * coherence[2]>>)
        IN /\ weights = [semanticSimilarity |-> 20, documentRelevance |-> 15,
                         conceptAccuracy |-> 15, topicAlignment |-> 15,
                         keywordPresence |-> 10, regulatoryCompliance |-> 15,
                         contextualCoherence |-> 10]
           /\ FracEQ(b.semanticSimilarityScore, semantic)
           /\ FracEQ(b.documentRelevanceScore, document)
           /\ FracEQ(b.conceptAccuracyScore, concept)
           /\ FracEQ(b.topicAlignmentScore, topic)
           /\ FracEQ(b.keywordPresenceScore, keyword)
           /\ FracEQ(b.regulatoryComplianceScore, compliance)
           /\ FracEQ(b.contextualCoherenceScore, coherence)
           /\ FracLE(<<0, 1>>, total) /\ FracLE(total, <<1, 1>>)
           /\ FracEQ(lastCall[1].result.overallScore, total)

\* texts of different semantic classes that share the keyword but not the
\* concept, and differ in their compliance terms
C26_Witness ==
    /\ Has(lastCall)
    /\ engine = "brdr"
    /\ weights = DefaultWeightsBRDR
    /\ nUpdates = 0
    /\ lastCall[1].result.breakdown.contextualCoherenceScore = <<1, 2>>
    /\ lastCall[1].result.breakdown.keywordPresenceScore = <<1, 1>>
    /\ lastCall[1].result.breakdown.conceptAccuracyScore = <<0, 1>>
    /\ lastCall[1].result.breakdown.regulatoryComplianceScore = <<1, 2>>
    /\ FracLT(<<0, 1>>, lastCall[1].result.overallScore)
    /\ FracLT(lastCall[1].result.overallScore, <<1, 1>>)

----------------------------------------------------------------------------
(* The domain-document engine: the semantic class of a text, as a function  *)
(* of the numbers of regulatory, procedural and technical terms it has.     *)

MaxHits == 4

HitCounts == [regulatory : 0..MaxHits, procedural : 0..MaxHits, technical : 0..MaxHits]

InitClassify ==
    /\ NoRequest
    /\ NoForm
    /\ NoExport
    /\ NoPage
    /\ engine = "brdr"
    /\ weights = <<>>
    /\ nUpdates = 0
    /\ lastCall = NoValue

\* classifySemanticType on a text with any numbers of terms of the three
\* vocabularies
ClassifySemanticType ==
    /\ engine = "brdr"
    /\ lastCall = NoValue
    /\ \E hits \in HitCounts :
         lastCall' = Some([hits |-> hits, result |-> classifySemanticType(hits)])
    /\ UNCHANGED <<requestVars, engine, weights, nUpdates, formVars, exportVars, pageVars>>

NextClassify == ClassifySemanticType

SpecClassify == InitClassify /\ [][NextClassify]_vars

\* C25: the semantic class is defined for all hit counts: regulatory hits >= 3
\* give regulatory; otherwise procedural hits >= 2 give procedural; otherwise
\* technical hits >= 2 give technical; otherwise any hit gives mixed;
\* otherwise informational.
C25_SemanticClassPriority ==
    Has(lastCall) =>
        LET h == lastCall[1].hits
            class == lastCall[1].result
        IN /\ class \in {"regulatory", "procedural", "technical", "mixed", "informational"}
           /\ h.regulatory >= 3 => class = "regulatory"
           /\ (h.regulatory < 3 /\ h.procedural >= 2) => class = "procedural"
           /\ (h.regulatory < 3 /\ h.procedural < 2 /\ h.technical >= 2) => class = "technical"
           /\ (/\ h.regulatory < 3 /\ h.procedural < 2 /\ h.technical < 2
               /\ h.regulatory + h.procedural + h.technical > 0) => class = "mixed"
           /\ h.regulatory + h.procedural + h.technical = 0 => class = "informational"

\* enough terms of all three vocabularies: the regulatory ones decide
C25_Witness ==
    /\ Has(lastCall)
    /\ lastCall[1].hits.regulatory >= 3
    /\ lastCall[1].hits.procedural >= 2
    /\ lastCall[1].hits.technical >= 2
    /\ lastCall[1].result = "regulatory"

----------------------------------------------------------------------------
(* The wizard page (Home): its state and its handlers. A handler that       *)
(* awaits a response is split at the await: the part before it and the part *)
(* after it are one step each, and React applies the setters of a step       *)
(* together.                                                                 *)

DbConfigs == {[url |-> "https://a.supabase.co", anonKey |-> "key"],
              [url |-> "https://b.supabase.co", anonKey |-> "key"]}
\* data.tables of /api/tables
TableLists == {<<"documents">>, <<"documents", "queries">>}
\* what the table selector hands to handleTableSelect
SelectedTables == {[name |-> "documents"], [name |-> "queries"]}
SampleRows == {<<>>, <<"row">>}
WizardTestConfigs == {[testName |-> "first", metricType |-> "sql"],
                      [testName |-> "second", metricType |-> "brdr"]}
\* testData.results of /api/test/run
RunResults(testConfiguration) == [testName |-> testConfiguration.testName]

Awaiting(handler, response, configuration) ==
    Some([handler |-> handler, awaiting |-> response, config |-> configuration])

InitWizard ==
    /\ NoRequest
    /\ NoCalculator
    /\ NoForm
    /\ NoExport
    /\ NoPage

wizardOtherVars == <<requestVars, metricVars, formVars, exportVars>>

\* handleDatabaseConnect up to the fetch of /api/tables; the form that calls
\* it is rendered in state 'connect' and disabled while isLoading
handleDatabaseConnect ==
    /\ state = "connect"
    /\ ~isLoading
    /\ \E configuration \in DbConfigs :
         inFlight' = Awaiting("handleDatabaseConnect", "tables", configuration)
    /\ isLoading' = TRUE
    /\ error' = NoValue
    /\ UNCHANGED <<state, dbConfig, tables, selectedTable, sampleData, testConfig,
                   wizardResults, progress, wizardOtherVars>>

\* handleDatabaseConnect after a response that is ok
TablesOk ==
    /\ Has(inFlight)
    /\ inFlight[1].awaiting = "tables"
    /\ dbConfig' = Some(inFlight[1].config)
    /\ \E list \in TableLists : tables' = list
    /\ state' = "select-table"
    /\ isLoading' = FALSE
    /\ inFlight' = NoValue
    /\ UNCHANGED <<selectedTable, sampleData, testConfig, wizardResults, error, progress,
                   wizardOtherVars>>

\* handleDatabaseConnect after a response that is not ok, or no response
TablesFailed ==
    /\ Has(inFlight)
    /\ inFlight[1].awaiting = "tables"
    /\ error' = Some("Failed to connect to database")
    /\ isLoading' = FALSE
    /\ inFlight' = NoValue
    /\ UNCHANGED <<state, dbConfig, tables, selectedTable, sampleData, testConfig,
                   wizardResults, progress, wizardOtherVars>>

\* handleTableSelect; the table selector is rendered in state 'select-table'
\* with a dbConfig
handleTableSelect ==
    /\ state = "select-table"
    /\ Has(dbConfig)
    /\ \E table \in SelectedTables : selectedTable' = Some(table)
    /\ \E rows \in SampleRows : sampleData' = rows
    /\ state' = "configure"
    /\ UNCHANGED <<dbConfig, tables, testConfig, wizardResults, isLoading, error, progress,
                   inFlight, wizardOtherVars>>

\* backToTableSelection; the form that calls it is rendered in state
\* 'configure' with a selectedTable
backToTableSelection ==
    /\ state = "configure"
    /\ Has(selectedTable)
    /\ state' = "select-table"
    /\ selectedTable' = NoValue
    /\ sampleData' = <<>>
    /\ error' = NoValue
    /\ UNCHANGED <<dbConfig, tables, testConfig, wizardResults, isLoading, progress,
                   inFlight, wizardOtherVars>>

\* resetToStart; Start Over is rendered in every state but 'connect', and the
\* results dashboard calls it too
resetToStart ==
    /\ state # "connect"
    /\ state' = "connect"
    /\ dbConfig' = NoValue
    /\ tables' = <<>>
    /\ selectedTable' = NoValue
    /\ sampleData' = <<>>
    /\ testConfig' = NoValue
    /\ wizardResults' = NoValue
    /\ error' = NoValue
    /\ progress' = NoValue
    /\ UNCHANGED <<isLoading, inFlight, wizardOtherVars>>

\* handleConfigurationComplete up to the fetch of /api/test/validate
handleConfigurationComplete ==
    /\ state = "configure"
    /\ Has(selectedTable)
    /\ \E configuration \in WizardTestConfigs :
         /\ testConfig' = Some(configuration)
         /\ inFlight' = Awaiting("handleConfigurationComplete", "validate", configuration)
    /\ state' = "running"
    /\ isLoading' = TRUE
    /\ error' = NoValue
    /\ progress' = Some([current |-> 10, total |-> 100,
                         currentStep |-> "Validating configuration..."])
    /\ UNCHANGED <<dbConfig, tables, selectedTable, sampleData, wizardResults,
                   wizardOtherVars>>

\* after a validate response that is ok with validation.isValid: up to the
\* fetch of /api/test/run
ValidateOk ==
    /\ Has(inFlight)
    /\ inFlight[1].awaiting = "validate"
    /\ progress' = Some([current |-> 20, total |-> 100,
                         currentStep |-> "Starting test execution..."])
    /\ inFlight' = Awaiting("handleConfigurationComplete", "run", inFlight[1].config)
    /\ UNCHANGED <<state, dbConfig, tables, selectedTable, sampleData, testConfig,
                   wizardResults, isLoading, error, wizardOtherVars>>

\* the catch and the finally of handleConfigurationComplete
CatchAndFinally(message) ==
    /\ error' = Some(message)
    /\ state' = "configure"
    /\ isLoading' = FALSE
    /\ progress' = NoValue
    /\ inFlight' = NoValue
    /\ UNCHANGED <<dbConfig, tables, selectedTable, sampleData, testConfig, wizardResults,
                   wizardOtherVars>>

\* after a validate response that is ok with validation.isValid false
ValidateRejected ==
    /\ Has(inFlight)
    /\ inFlight[1].awaiting = "validate"
    /\ CatchAndFinally("Configuration errors:")

\* after a validate response that is not ok, or no response
ValidateFailed ==
    /\ Has(inFlight)
    /\ inFlight[1].awaiting = "validate"
    /\ CatchAndFinally("Configuration validation failed")

\* after a run response that is ok
RunOk ==
    /\ Has(inFlight)
    /\ inFlight[1].awaiting = "run"
    /\ wizardResults' = Some(RunResults(inFlight[1].config))
    /\ state' = "results"
    /\ isLoading' = FALSE
    /\ progress' = NoValue
    /\ inFlight' = NoValue
    /\ UNCHANGED <<dbConfig, tables, selectedTable, sampleData, testConfig, error,
                   wizardOtherVars>>

\* after a run response that is not ok, or no response
RunFailed ==
    /\ Has(inFlight)
    /\ inFlight[1].awaiting = "run"
    /\ CatchAndFinally("Test execution failed")

NextWizard ==
    \/ handleDatabaseConnect
    \/ TablesOk
    \/ TablesFailed
    \/ handleTableSelect
    \/ backToTableSelection
    \/ resetToStart
    \/ handleConfigurationComplete
    \/ ValidateOk
    \/ ValidateRejected
    \/ ValidateFailed
    \/ RunOk
    \/ RunFailed

SpecWizard == InitWizard /\ [][NextWizard]_vars

\* C28: from Start Over on the wizard stays in 'connect' with results,
\* testConfig and selectedTable null until a connection succeeds; a request of
\* handleConfigurationComplete still in flight moves it neither to 'results'
\* nor to 'configure' and sets no results.
C28_Original ==
    [][state = "connect" =>
         /\ state' \in {"connect", "select-table"}
         /\ wizardResults' = NoValue
         /\ testConfig' = NoValue
         /\ selectedTable' = NoValue
         /\ state' = "select-table" =>
              (Has(inFlight) /\ inFlight[1].awaiting = "tables" /\ Has(dbConfig'))]_vars

\* the latest step ended handleConfigurationComplete
HandlerEnds ==
    /\ Has(inFlight)
    /\ inFlight[1].handler = "handleConfigurationComplete"
    /\ inFlight' = NoValue

\* C29: 'results' is entered only from 'running', by a run response that is ok
\* after a validate response that was ok and valid; a failure of either
\* request leads from 'running' to 'configure' with an error, and a failed
\* validation sends no run request; isLoading is false and progress null
\* when the handler ends.
C29_Original ==
    [][/\ (state # "results" /\ state' = "results") =>
            (state = "running" /\ HandlerEnds /\ inFlight[1].awaiting = "run"
             /\ Has(wizardResults'))
       /\ (HandlerEnds /\ state' # "results") =>
            (state' = "configure" /\ Has(error'))
       /\ (Has(inFlight) /\ inFlight[1].awaiting = "validate" /\ Has(error')) =>
            inFlight' = NoValue
       /\ HandlerEnds => (isLoading' = FALSE /\ progress' = NoValue)]_vars

====
